---- MODULE Spec2Model ----
(***************************************************************************)
(* A model of the micrograd-rs computation-graph engine (src/src/value.rs, *)
(* with the demonstration program of src/src/main.rs).                     *)
(*                                                                         *)
(* Rc<RefCell<Value>> cells live in an arena `nodes`: a node's identity    *)
(* (the Rc pointer that build_topo hashes) is its index in the arena, and  *)
(* a ValueRef is such an index.  f64 numbers are modelled by exact         *)
(* rationals <<numerator, denominator>> in lowest terms; infinities and    *)
(* NaN are kept out by never raising zero to a negative power.             *)
(***************************************************************************)
EXTENDS Integers, Sequences, FiniteSets

VARIABLES
    nodes,   \* the arena: every Value constructed so far, by identity
    last,    \* the constructor or operator call that has just returned, if
             \* the last call was one: its name, operands, and result
    inputs,  \* the literals of the demonstration program (main)
    mpc      \* the statement of main to execute next (0: main is not running)

vars == <<nodes, last, inputs, mpc>>

----------------------------------------------------------------------------
(* Bounds of the model *)

\* nodes in the arena of the general caller
MaxNodes == 3

\* nodes in the arena of the caller of the f64 forms
MaxLitNodes == 4

\* nodes in the arena of the caller of Neg, Sub, pow and Div
MaxOpsNodes == 4

\* literals handed to Value::new and to the f64 forms of the operators
Literals == {<<-1, 1>>, <<2, 1>>}

\* exponents handed to pow
Exps == {-1, 2}

\* gradients handed to set_grad
GradLits == {<<3, 1>>}

----------------------------------------------------------------------------
(* f64 arithmetic, exact *)

Abs(n) == IF n < 0 THEN -n ELSE n

RECURSIVE Gcd(_, _)
Gcd(a, b) == IF b = 0 THEN a ELSE Gcd(b, a % b)

Norm(n, d) ==
    LET s == IF d < 0 THEN -1 ELSE 1
        g == Gcd(Abs(n), Abs(d))
    IN  <<(s * n) \div g, (s * d) \div g>>

Zero == <<0, 1>>
One == <<1, 1>>

FAdd(x, y) == Norm(x[1] * y[2] + y[1] * x[2], x[2] * y[2])
FMul(x, y) == Norm(x[1] * y[1], x[2] * y[2])
FNeg(x) == <<-x[1], x[2]>>
FInv(x) == Norm(x[2], x[1])
\* >= in place of >
FGe(x, y) == x[1] * y[2] >= y[1] * x[2]

FGt(x, y) == x[1] * y[2] > y[1] * x[2]

RECURSIVE powf(_, _)
powf(x, e) ==
    IF e = 0 THEN One
    ELSE IF e < 0 THEN FInv(powf(x, -e))
    ELSE FMul(x, powf(x, e - 1))

----------------------------------------------------------------------------
(* struct Value and its closures *)

\* the closure Box<dyn FnMut(f64)> of a node: its rule and what it captured
NoOp == [rule |-> "noop", a |-> 0, b |-> 0, self_data |-> Zero]

Value(data, parents, operation, backward) ==
    [data |-> data, grad |-> Zero, parents |-> parents,
     operation |-> operation, backward |-> backward]

Handles(ns) == 1..Len(ns)

\* Value::new / ValueRef::new / From<f64>: the arena with a fresh leaf;
\* the handle returned is the last index
new(ns, data) == Append(ns, Value(data, <<>>, "", NoOp))

\* set_grad storing into data
set_grad_into_data(ns, v, new_grad) == [ns EXCEPT ![v].data = new_grad]

set_grad(ns, v, new_grad) == [ns EXCEPT ![v].grad = new_grad]

\* add_to_grad storing the contribution instead of adding it
add_to_grad_overwrite(ns, v, sum_to_grad) == set_grad(ns, v, sum_to_grad)

add_to_grad(ns, v, sum_to_grad) ==
    LET g == ns[v].grad
    IN  set_grad(ns, v, FAdd(g, sum_to_grad))

----------------------------------------------------------------------------
(* topological sort *)

RECURSIVE build_topo_preorder(_, _, _)
RECURSIVE build_topo_preorder_parents(_, _, _, _)

\* build_topo pushing the node before its parents are visited
build_topo_preorder(ns, v, st) ==
    IF v \notin st.visited
    THEN build_topo_preorder_parents(ns, v, 1,
             [visited |-> st.visited \cup {v}, topo |-> Append(st.topo, v)])
    ELSE st

build_topo_preorder_parents(ns, v, k, st) ==
    IF k > Len(ns[v].parents) THEN st
    ELSE build_topo_preorder_parents(ns, v, k + 1,
             build_topo_preorder(ns, ns[v].parents[k], st))

RECURSIVE build_topo_by_value(_, _, _)
RECURSIVE build_topo_by_value_parents(_, _, _, _)

\* build_topo with the visited set keyed by Value's PartialEq (the data)
\* instead of the pointer
build_topo_by_value(ns, v, st) ==
    IF \A u \in st.visited : ns[u].data # ns[v].data
    THEN LET st1 == [st EXCEPT !.visited = @ \cup {v}]
             st2 == build_topo_by_value_parents(ns, v, 1, st1)
         IN  [st2 EXCEPT !.topo = Append(@, v)]
    ELSE st

build_topo_by_value_parents(ns, v, k, st) ==
    IF k > Len(ns[v].parents) THEN st
    ELSE build_topo_by_value_parents(ns, v, k + 1,
             build_topo_by_value(ns, ns[v].parents[k], st))

RECURSIVE build_topo(_, _, _)
RECURSIVE build_topo_parents(_, _, _, _)

\* st = [visited, topo]: the two &mut arguments
build_topo(ns, v, st) ==
    IF v \notin st.visited
    THEN LET st1 == [st EXCEPT !.visited = @ \cup {v}]
             st2 == build_topo_parents(ns, v, 1, st1)
         IN  [st2 EXCEPT !.topo = Append(@, v)]
    ELSE st

\* the for loop over value_ref.parents, from its k-th parent on
build_topo_parents(ns, v, k, st) ==
    IF k > Len(ns[v].parents) THEN st
    ELSE build_topo_parents(ns, v, k + 1, build_topo(ns, ns[v].parents[k], st))

getparents_topo_sort(ns, v) ==
    build_topo(ns, v, [visited |-> {}, topo |-> <<>>]).topo

----------------------------------------------------------------------------
(* operators *)

\* impl Add for &ValueRef
add(ns, a, b) ==
    Append(ns, Value(FAdd(ns[a].data, ns[b].data), <<a, b>>, "+",
                     [rule |-> "add", a |-> a, b |-> b, self_data |-> Zero]))

\* impl Mul for &ValueRef
mul(ns, a, b) ==
    Append(ns, Value(FMul(ns[a].data, ns[b].data), <<a, b>>, "*",
                     [rule |-> "mul", a |-> a, b |-> b, self_data |-> Zero]))

\* impl Neg for &ValueRef
neg(ns, a) == new(ns, FNeg(ns[a].data))

\* ValueRef::pow
pow(ns, a, exp) == new(ns, powf(ns[a].data, exp))

\* ValueRef::relu
relu(ns, a) ==
    LET self_data == ns[a].data
    IN  Append(ns, Value(IF FGt(self_data, Zero) THEN self_data ELSE Zero,
                         <<a>>, "ReLU",
                         [rule |-> "relu", a |-> a, b |-> 0,
                          self_data |-> self_data]))

\* impl Sub for &ValueRef: self + &(-rhs)
sub(ns, a, b) ==
    LET n1 == neg(ns, b)
    IN  add(n1, a, Len(n1))

\* impl Div for &ValueRef: self * &(rhs.pow(-1.0))
div(ns, a, b) ==
    LET n1 == pow(ns, b, -1)
    IN  mul(n1, a, Len(n1))

\* impl Add<f64> for &ValueRef
add_f64(ns, a, rhs) ==
    LET n1 == new(ns, rhs)
    IN  add(n1, a, Len(n1))

\* the literal promoted and added in the written order
f64_add_written_order(ns, lhs, a) ==
    LET n1 == new(ns, lhs)
    IN  add(n1, Len(n1), a)

\* impl Add<&ValueRef> for f64: rhs + self
f64_add(ns, lhs, a) == add_f64(ns, a, lhs)

\* impl Sub<f64> for &ValueRef
sub_f64(ns, a, rhs) ==
    LET n1 == new(ns, rhs)
    IN  sub(n1, a, Len(n1))

\* impl Sub<&ValueRef> for f64
f64_sub(ns, lhs, a) ==
    LET n1 == new(ns, lhs)
    IN  sub(n1, Len(n1), a)

\* impl Mul<f64> for &ValueRef
mul_f64(ns, a, rhs) ==
    LET n1 == new(ns, rhs)
    IN  mul(n1, a, Len(n1))

\* impl Mul<&ValueRef> for f64: rhs * self
f64_mul(ns, lhs, a) == mul_f64(ns, a, lhs)

\* impl Div<f64> for &ValueRef
div_f64(ns, a, rhs) ==
    LET n1 == new(ns, rhs)
    IN  div(n1, a, Len(n1))

\* impl Div<&ValueRef> for f64
f64_div(ns, lhs, a) ==
    LET n1 == new(ns, lhs)
    IN  div(n1, Len(n1), a)

----------------------------------------------------------------------------
(* backward and clear_grads *)

\* the closures with Mul's handing each operand its own data
call_backward_mul_own(ns, v, g) ==
    LET c == ns[v].backward
    IN  CASE c.rule = "add" ->
               add_to_grad(add_to_grad(ns, c.a, g), c.b, g)
          [] c.rule = "mul" ->
               LET a_data == ns[c.a].data
                   b_data == ns[c.b].data
               IN  add_to_grad(add_to_grad(ns, c.a, FMul(a_data, g)),
                               c.b, FMul(b_data, g))
          [] c.rule = "relu" ->
               add_to_grad(ns, c.a, IF FGt(c.self_data, Zero) THEN g ELSE Zero)
          [] OTHER -> ns

\* (value_ref.inner.borrow_mut().backward)(g): the closure bound at construction
call_backward(ns, v, g) ==
    LET c == ns[v].backward
    IN  CASE c.rule = "add" ->
               add_to_grad(add_to_grad(ns, c.a, g), c.b, g)
          [] c.rule = "mul" ->
               LET a_data == ns[c.a].data
                   b_data == ns[c.b].data
               IN  add_to_grad(add_to_grad(ns, c.a, FMul(b_data, g)),
                               c.b, FMul(a_data, g))
          [] c.rule = "relu" ->
               add_to_grad(ns, c.a, IF FGt(c.self_data, Zero) THEN g ELSE Zero)
          [] OTHER -> ns

RECURSIVE clear_grads_from(_, _, _)
\* the for loop of clear_grads, from the k-th element of its topo on
clear_grads_from(ns, t, k) ==
    IF k > Len(t) THEN ns
    ELSE clear_grads_from(set_grad(ns, t[k], Zero), t, k + 1)

\* clear_grads clearing self only
clear_grads_self_only(ns, v) == set_grad(ns, v, Zero)

\* ValueRef::clear_grads
clear_grads(ns, v) == clear_grads_from(ns, getparents_topo_sort(ns, v), 1)

RECURSIVE backward_from(_, _, _)
\* the loop `for value_ref in topo.into_iter().rev()`, about to visit t[k].
\* run = [nodes, calls]: the arena, and the log of the closures invoked so
\* far with the g each was handed
backward_from(run, t, k) ==
    IF k < 1 THEN run
    ELSE LET value_ref == t[k]
             g == run.nodes[value_ref].grad
         IN  backward_from(
                 [nodes |-> call_backward(run.nodes, value_ref, g),
                  calls |-> Append(run.calls, [node |-> value_ref, g |-> g])],
                 t, k - 1)

\* backward without the call of clear_grads
backward_run_no_clear(ns, v) ==
    LET n2 == set_grad(ns, v, One)
        t == getparents_topo_sort(n2, v)
    IN  backward_from([nodes |-> n2, calls |-> <<>>], t, Len(t))

\* ValueRef::backward, with the log of its closure invocations
backward_run(ns, v) ==
    LET n1 == clear_grads(ns, v)
        n2 == set_grad(n1, v, One)
        t == getparents_topo_sort(n2, v)
    IN  backward_from([nodes |-> n2, calls |-> <<>>], t, Len(t))

\* ValueRef::backward
backward(ns, v) == backward_run(ns, v).nodes

----------------------------------------------------------------------------
(* the state machine: any single-threaded caller of the public interface *)

\* the caller is not main: it may call anything, in any order
Caller == mpc = 0

\* room in the arena for k more nodes
Room(k) == Caller /\ Len(nodes) + k <= MaxNodes

\* the call `op` with the handles a, b (0: none), the literal x and the
\* exponent e (0: none)
Call(op, a, b, x, e) == [op |-> op, a |-> a, b |-> b, x |-> x, e |-> e]

\* the last call was no constructor or operator
NoCall == Call("", 0, 0, Zero, 0)

\* a constructor or operator returned the arena ns; the handle it returned
\* is the last node
Built(ns, call) ==
    /\ nodes' = ns
    /\ last' = call
    /\ UNCHANGED <<inputs, mpc>>

CallNew == \E x \in Literals : Built(new(nodes, x), Call("new", 0, 0, x, 0))
CallNeg ==
    \E a \in Handles(nodes) :
        Built(neg(nodes, a), Call("neg", a, 0, Zero, 0))
CallSub ==
    \E a, b \in Handles(nodes) :
        Built(sub(nodes, a, b), Call("sub", a, b, Zero, 0))
CallPow ==
    \E a \in Handles(nodes), e \in Exps :
        /\ (e < 0 => nodes[a].data # Zero)
        /\ Built(pow(nodes, a, e), Call("pow", a, 0, Zero, e))
CallDiv ==
    \E a, b \in Handles(nodes) :
        /\ nodes[b].data # Zero
        /\ Built(div(nodes, a, b), Call("div", a, b, Zero, 0))
CallAddF64 ==
    \E a \in Handles(nodes), x \in Literals :
        Built(add_f64(nodes, a, x), Call("add_f64", a, 0, x, 0))
CallF64Add ==
    \E a \in Handles(nodes), x \in Literals :
        Built(f64_add(nodes, x, a), Call("f64_add", a, 0, x, 0))
CallSubF64 ==
    \E a \in Handles(nodes), x \in Literals :
        Built(sub_f64(nodes, a, x), Call("sub_f64", a, 0, x, 0))
CallF64Sub ==
    \E a \in Handles(nodes), x \in Literals :
        Built(f64_sub(nodes, x, a), Call("f64_sub", a, 0, x, 0))
CallMulF64 ==
    \E a \in Handles(nodes), x \in Literals :
        Built(mul_f64(nodes, a, x), Call("mul_f64", a, 0, x, 0))
CallF64Mul ==
    \E a \in Handles(nodes), x \in Literals :
        Built(f64_mul(nodes, x, a), Call("f64_mul", a, 0, x, 0))
CallDivF64 ==
    \E a \in Handles(nodes), x \in Literals :
        /\ x # Zero
        /\ Built(div_f64(nodes, a, x), Call("div_f64", a, 0, x, 0))
CallF64Div ==
    \E a \in Handles(nodes), x \in Literals :
        /\ nodes[a].data # Zero
        /\ Built(f64_div(nodes, x, a), Call("f64_div", a, 0, x, 0))

New == Room(1) /\ CallNew
Add ==
    /\ Room(1)
    /\ \E a, b \in Handles(nodes) :
        Built(add(nodes, a, b), Call("add", a, b, Zero, 0))
Mul ==
    /\ Room(1)
    /\ \E a, b \in Handles(nodes) :
        Built(mul(nodes, a, b), Call("mul", a, b, Zero, 0))
Sub == Room(2) /\ CallSub
Div == Room(2) /\ CallDiv
Relu ==
    /\ Room(1)
    /\ \E a \in Handles(nodes) :
        Built(relu(nodes, a), Call("relu", a, 0, Zero, 0))
SetGrad ==
    /\ Caller
    /\ \E a \in Handles(nodes), g \in GradLits :
        /\ nodes' = set_grad(nodes, a, g)
        /\ last' = NoCall
        /\ UNCHANGED <<inputs, mpc>>

ClearGrads ==
    /\ Caller
    /\ \E v \in Handles(nodes) :
        /\ nodes' = clear_grads(nodes, v)
        /\ last' = NoCall
        /\ UNCHANGED <<inputs, mpc>>

Backward ==
    /\ Caller
    /\ \E v \in Handles(nodes) :
        /\ nodes' = backward(nodes, v)
        /\ last' = NoCall
        /\ UNCHANGED <<inputs, mpc>>

----------------------------------------------------------------------------
(* the demonstration program: fn main of src/src/main.rs *)

\* the literals main is written with
MainLiterals ==
    [x |-> <<2, 1>>, w |-> <<1, 1>>, b |-> <<3, 1>>, i |-> <<3, 2>>, j |-> <<4, 1>>]

\* the literals main is run with
MainInputs ==
    [x : {<<2, 1>>, <<-3, 1>>}, w : {<<1, 1>>, <<0, 1>>},
     b : {<<3, 1>>, <<-1, 2>>}, i : {<<3, 2>>, <<2, 1>>},
     j : {<<4, 1>>, <<-1, 1>>}]

\* the handles main's let bindings hold, in the order the nodes are built
main_x == 1
main_w == 2
main_b == 3
main_xw == 4
main_y == 5
main_i == 6
main_j == 7
main_ij == 8
main_xx == 9
main_k == 10
main_result == 11

\* the arena after main's statement number s ran on the arena ns
main_statement(ns, in, s) ==
    CASE s = 1 -> new(ns, in.x)
      [] s = 2 -> new(ns, in.w)
      [] s = 3 -> new(ns, in.b)
      [] s = 4 -> mul(ns, main_x, main_w)
      [] s = 5 -> add(ns, main_xw, main_b)
      [] s = 6 -> new(ns, in.i)
      [] s = 7 -> new(ns, in.j)
      [] s = 8 -> mul(ns, main_i, main_j)
      [] s = 9 -> mul(ns, main_x, main_x)
      [] s = 10 -> add(ns, main_ij, main_xx)
      [] s = 11 -> mul(ns, main_k, main_y)
      [] OTHER -> backward(ns, main_result)

\* main's last statement: result.backward()
main_last == 12

MainStep ==
    /\ mpc \in 1..main_last
    /\ nodes' = main_statement(nodes, inputs, mpc)
    /\ mpc' = mpc + 1
    /\ last' = NoCall
    /\ UNCHANGED inputs

\* main has returned from result.backward()
MainDone == mpc = main_last + 1

Init ==
    /\ nodes = <<>>
    /\ last = NoCall
    /\ \/ mpc = 0 /\ inputs = MainLiterals
       \/ mpc = 1 /\ inputs \in MainInputs

\* no node yet, and the caller is not main
InitCaller ==
    /\ nodes = <<>>
    /\ last = NoCall
    /\ mpc = 0
    /\ inputs = MainLiterals

\* the caller builds graphs from leaves with the operators that link their
\* result to their operands and differentiates them, or is main
Next ==
    \/ New \/ Add \/ Mul \/ Relu
    \/ ClearGrads \/ Backward
    \/ MainStep

Spec == Init /\ [][Next]_vars

----------------------------------------------------------------------------
(* a caller that also sets grads by hand *)

NextGrad ==
    \/ New \/ Add \/ Mul
    \/ SetGrad \/ ClearGrads \/ Backward

SpecGrad == InitCaller /\ [][NextGrad]_vars

----------------------------------------------------------------------------
(* a caller of the operators written in terms of others: - / and pow *)

OpsRoom(k) == Caller /\ Len(nodes) + k <= MaxOpsNodes

OpsNew == OpsRoom(1) /\ CallNew
OpsNeg == OpsRoom(1) /\ CallNeg
OpsSub == OpsRoom(2) /\ CallSub
OpsPow == OpsRoom(1) /\ CallPow
OpsDiv == OpsRoom(2) /\ CallDiv

NextOps ==
    \/ OpsNew \/ OpsNeg \/ OpsSub \/ OpsPow \/ OpsDiv
    \/ SetGrad \/ ClearGrads \/ Backward

SpecOps == InitCaller /\ [][NextOps]_vars

----------------------------------------------------------------------------
(* a caller of every operator between handles; Neg and pow run inside *)
(* Sub and Div                                                           *)

NextAll ==
    \/ New \/ Add \/ Mul \/ Relu \/ Sub \/ Div
    \/ SetGrad \/ ClearGrads \/ Backward

SpecAll == InitCaller /\ [][NextAll]_vars

----------------------------------------------------------------------------
(* a caller of the operators that take an f64 literal on one side *)

LitRoom(k) == Caller /\ Len(nodes) + k <= MaxLitNodes

LitNew == LitRoom(1) /\ CallNew
LitAddF64 == LitRoom(2) /\ CallAddF64
LitF64Add == LitRoom(2) /\ CallF64Add
LitSubF64 == LitRoom(3) /\ CallSubF64
LitF64Sub == LitRoom(3) /\ CallF64Sub
LitMulF64 == LitRoom(2) /\ CallMulF64
LitF64Mul == LitRoom(2) /\ CallF64Mul
LitDivF64 == LitRoom(3) /\ CallDivF64
LitF64Div == LitRoom(3) /\ CallF64Div

NextLit ==
    \/ LitNew
    \/ LitAddF64 \/ LitF64Add \/ LitSubF64 \/ LitF64Sub
    \/ LitMulF64 \/ LitF64Mul \/ LitDivF64 \/ LitF64Div
    \/ SetGrad \/ ClearGrads \/ Backward

SpecLit == InitCaller /\ [][NextLit]_vars

----------------------------------------------------------------------------
(* what the properties below are stated with *)

Parents(ns, v) == {ns[v].parents[k] : k \in 1..Len(ns[v].parents)}

RECURSIVE Reach(_, _)
\* the nodes reachable from v through parent links, v included
Reach(ns, v) == {v} \cup UNION {Reach(ns, p) : p \in Parents(ns, v)}

\* v has a node reachable by two paths, or listed twice as a parent
Shared(ns, v) ==
    \E c \in Reach(ns, v) :
        /\ Len(ns[c].parents) = 2
        /\ \/ ns[c].parents[1] = ns[c].parents[2]
           \/ ns[c].parents[1] \in Reach(ns, ns[c].parents[2])
           \/ ns[c].parents[2] \in Reach(ns, ns[c].parents[1])

----------------------------------------------------------------------------
(* C1 *)

\* C1: in backward(v), from any state and for any root v, when the closure of
\* a node n is invoked the closure of every node reachable from v that has n
\* as a parent has been invoked already, and the g handed to n's closure is
\* the grad n holds when backward returns; every reachable node's closure is
\* invoked exactly once.
C1_GradFinalWhenPropagated ==
    \A v \in Handles(nodes) :
        LET run == backward_run(nodes, v)
            calls == run.calls
            reach == Reach(nodes, v)
        IN  /\ Len(calls) = Cardinality(reach)
            /\ {calls[k].node : k \in 1..Len(calls)} = reach
            /\ \A k \in 1..Len(calls) :
                /\ \A c \in reach :
                       calls[k].node \in Parents(nodes, c)
                           => \E j \in 1..(k - 1) : calls[j].node = c
                /\ calls[k].g = run.nodes[calls[k].node].grad

\* backward has run on a root with a shared node, some node of it having
\* gathered its grad from two contributions
C1_Witness ==
    \E v \in Handles(nodes) :
        /\ Shared(nodes, v)
        /\ nodes = backward(nodes, v)
        /\ \E n \in Reach(nodes, v) :
               /\ n # v
               /\ nodes[n].grad # Zero
               /\ Cardinality({c \in Reach(nodes, v) : n \in Parents(nodes, c)}) = 2

----------------------------------------------------------------------------
(* C2 *)

\* C2: for every root v, getparents_topo_sort holds exactly the nodes
\* reachable from v, each once (nodes are told apart by identity, so nodes
\* of equal data all appear), every parent at a smaller index than the nodes
\* listing it, and v last.
C2_TopoSort ==
    \A v \in Handles(nodes) :
        LET t == getparents_topo_sort(nodes, v)
        IN  /\ {t[k] : k \in 1..Len(t)} = Reach(nodes, v)
            /\ \A i, j \in 1..Len(t) : t[i] = t[j] => i = j
            /\ \A i \in 1..Len(t) :
                   \A p \in Parents(nodes, t[i]) :
                       \E j \in 1..(i - 1) : t[j] = p
            /\ t[Len(t)] = v

\* backward has run on a root (so the root was sorted, by clear_grads and by
\* backward itself) that reaches two nodes of equal data and a node listed
\* twice as a parent
C2_Witness ==
    \E v \in Handles(nodes) :
        /\ \E a, b \in Reach(nodes, v) : a # b /\ nodes[a].data = nodes[b].data
        /\ \E c \in Reach(nodes, v) :
               /\ Len(nodes[c].parents) = 2
               /\ nodes[c].parents[1] = nodes[c].parents[2]
        /\ nodes[v].grad = One
        /\ nodes = backward(nodes, v)

----------------------------------------------------------------------------
(* C3 *)

IsLeaf(ns, v) == Len(ns[v].parents) = 0

\* every node reachable from v is a leaf, an Add or a Mul
AddMulOnly(ns, v) == \A n \in Reach(ns, v) : ns[n].operation \in {"", "+", "*"}

\* the partial derivative of the Add or Mul node c by its k-th parent
Local(ns, c, k) ==
    IF ns[c].operation = "+" THEN One ELSE ns[ns[c].parents[3 - k]].data

RECURSIVE Deriv(_, _, _)
RECURSIVE DerivVia(_, _, _, _)

\* the derivative of r's value by n: the sum, over the parent-link paths
\* from r to n, of the product of the partial derivatives along the path
Deriv(ns, r, n) == IF n = r THEN One ELSE DerivVia(ns, r, n, n + 1)

\* the paths whose last link is from a node c, c >= from, to n (a node is
\* built after its parents, so the nodes listing n follow it in the arena,
\* and no path from r leaves a node after r)
DerivVia(ns, r, n, from) ==
    IF from > r THEN Zero
    ELSE LET c == from
             links == {k \in 1..Len(ns[c].parents) : ns[c].parents[k] = n}
             via == IF links = {} THEN Zero
                    ELSE LET d == Deriv(ns, r, c)
                         IN  IF d = Zero THEN Zero
                             ELSE IF links = {1, 2}
                             THEN FAdd(FMul(Local(ns, c, 1), d),
                                       FMul(Local(ns, c, 2), d))
                             ELSE FMul(Local(ns, c, CHOOSE k \in links : TRUE), d)
         IN  FAdd(via, DerivVia(ns, r, n, from + 1))

\* C3: for every root v reaching only leaves, Adds and Muls, backward(v)
\* (from any state) leaves in every reachable node the derivative of v's
\* value by that node; for distinct leaves a, b, backward(a+b) leaves grad 1
\* in both and backward(a*b) leaves b's data in a and a's data in b; and
\* main, run with x=2, w=1, b=3, i=1.5, j=4, ends with result's data 50 and
\* the grads x: 30, w: 20, b: 10, i: 20, j: 7.5.
C3_GradIsDerivative ==
    /\ \A v \in Handles(nodes) :
           LET after == backward(nodes, v)
               a == nodes[v].parents[1]
               b == nodes[v].parents[2]
           IN  /\ AddMulOnly(nodes, v) =>
                      \A n \in Reach(nodes, v) :
                          after[n].grad = Deriv(nodes, v, n)
               /\ (/\ nodes[v].operation = "+"
                   /\ IsLeaf(nodes, a) /\ IsLeaf(nodes, b) /\ a # b)
                      => after[a].grad = One /\ after[b].grad = One
               /\ (/\ nodes[v].operation = "*"
                   /\ IsLeaf(nodes, a) /\ IsLeaf(nodes, b) /\ a # b)
                      => /\ after[a].grad = nodes[b].data
                         /\ after[b].grad = nodes[a].data
    /\ MainDone =>
           \A n \in Handles(nodes) : nodes[n].grad = Deriv(nodes, main_result, n)
    /\ (MainDone /\ inputs = MainLiterals) =>
           /\ nodes[main_y].data = <<5, 1>>
           /\ nodes[main_k].data = <<10, 1>>
           /\ nodes[main_result].data = <<50, 1>>
           /\ nodes[main_x].grad = <<30, 1>>
           /\ nodes[main_w].grad = <<20, 1>>
           /\ nodes[main_b].grad = <<10, 1>>
           /\ nodes[main_i].grad = <<20, 1>>
           /\ nodes[main_j].grad = <<15, 2>>

\* main, run with the literals it is written with, has returned from
\* result.backward()
C3_Witness ==
    /\ MainDone
    /\ inputs = MainLiterals
    /\ nodes[main_result].grad = One
    /\ nodes[main_x].grad = <<30, 1>>

----------------------------------------------------------------------------
(* C4 *)

\* C4: for every node v whose two parents are the same leaf a, backward(v)
\* (from any state) leaves in a the sum of both contributions: 2 when v is
\* an Add, twice a's data when v is a Mul.
C4_SelfCombination ==
    \A v \in Handles(nodes) :
        (/\ Len(nodes[v].parents) = 2
         /\ nodes[v].parents[1] = nodes[v].parents[2]
         /\ IsLeaf(nodes, nodes[v].parents[1]))
            => LET a == nodes[v].parents[1]
                   after == backward(nodes, v)
               IN  /\ nodes[v].operation = "+" => after[a].grad = <<2, 1>>
                   /\ nodes[v].operation = "*" =>
                          after[a].grad = FMul(<<2, 1>>, nodes[a].data)

\* a leaf a of data other than 0 and 1, b = a + a and c = a * a, after
\* backward(b) and then backward(c)
C4_Witness ==
    \E a, b, c \in Handles(nodes) :
        /\ IsLeaf(nodes, a)
        /\ nodes[a].data \notin {Zero, One}
        /\ nodes[b].operation = "+" /\ nodes[b].parents = <<a, a>>
        /\ nodes[c].operation = "*" /\ nodes[c].parents = <<a, a>>
        /\ nodes[b].grad = One
        /\ nodes[c].grad = One
        /\ nodes[a].grad = FMul(<<2, 1>>, nodes[a].data)

----------------------------------------------------------------------------
(* C5 *)

\* C5: -a returns a node of data -a.data whose only parent is a, and
\* backward on it leaves grad -1 in a; a - b returns a node of data
\* a.data - b.data that b is reachable from; for distinct leaves a, b,
\* backward(a - b) leaves a.grad = 1 and b.grad = -1; for d = a - a,
\* d.data = 0 and backward(d) leaves a.grad = 0.
C5_NegSubAsClaimed ==
    LET r == Len(nodes)
        a == last.a
        b == last.b
    IN  /\ last.op = "neg" =>
               /\ nodes[r].data = FNeg(nodes[a].data)
               /\ nodes[r].parents = <<a>>
               /\ backward(nodes, r)[a].grad = FNeg(One)
        /\ last.op = "sub" =>
               LET after == backward(nodes, r)
               IN  /\ nodes[r].data = FAdd(nodes[a].data, FNeg(nodes[b].data))
                   /\ b \in Reach(nodes, r)
                   /\ (a # b /\ IsLeaf(nodes, a) /\ IsLeaf(nodes, b)) =>
                          /\ after[a].grad = One
                          /\ after[b].grad = FNeg(One)
                   /\ a = b =>
                          /\ nodes[r].data = Zero
                          /\ after[a].grad = Zero

----------------------------------------------------------------------------
(* C6 *)

\* C6: a.pow(e) returns a node of data a.data^e whose only parent is a, and
\* backward on it leaves grad e * a.data^(e-1) in a; a / b returns a node
\* that b is reachable from; for distinct leaves a, b, backward(a / b)
\* leaves b.grad = -a.data / b.data^2; for d = a / a, d.data = 1 and
\* backward(d) leaves a.grad = 0.
C6_PowDivAsClaimed ==
    LET r == Len(nodes)
        a == last.a
        b == last.b
    IN  /\ last.op = "pow" =>
               /\ nodes[r].data = powf(nodes[a].data, last.e)
               /\ nodes[r].parents = <<a>>
               /\ backward(nodes, r)[a].grad =
                      FMul(<<last.e, 1>>, powf(nodes[a].data, last.e - 1))
        /\ last.op = "div" =>
               LET after == backward(nodes, r)
               IN  /\ b \in Reach(nodes, r)
                   /\ (a # b /\ IsLeaf(nodes, a) /\ IsLeaf(nodes, b)) =>
                          after[b].grad =
                              FNeg(FMul(nodes[a].data, powf(nodes[b].data, -2)))
                   /\ a = b =>
                          /\ nodes[r].data = One
                          /\ after[a].grad = Zero

----------------------------------------------------------------------------
(* C7 *)

\* C7: clear_grads(v), from any state (whatever backward, clear_grads and
\* set_grad calls came before) and for any root v, leaves grad 0 in every
\* node reachable from v, and a second clear_grads(v) changes nothing.
C7_ClearGrads ==
    \A v \in Handles(nodes) :
        LET cleared == clear_grads(nodes, v)
        IN  /\ \A n \in Reach(nodes, v) : cleared[n].grad = Zero
            /\ clear_grads(cleared, v) = cleared

\* clear_grads(v) has run after backward(w), w a root outside v's graph that
\* shares with v a node backward(w) leaves a grad other than 0 in
C7_Witness ==
    \E v, w \in Handles(nodes) :
        /\ w \notin Reach(nodes, v)
        /\ nodes[w].grad = One
        /\ \E n \in Reach(nodes, v) \cap Reach(nodes, w) :
               backward(nodes, w)[n].grad # Zero
        /\ \A n \in Reach(nodes, v) : nodes[n].grad = Zero
        /\ Len(nodes[v].parents) = 2

----------------------------------------------------------------------------
(* C8 *)

\* C8: relu(a) returns a fresh node of data max(0, a.data) whose only parent
\* is a; and for every node v built by relu, on a, backward(v) (from any
\* state) leaves grad 1 in a when a.data > 0 and grad 0 when a.data <= 0,
\* a.data = 0 included.
C8_Relu ==
    /\ last.op = "relu" =>
           LET v == Len(nodes)
           IN  /\ nodes[v].operation = "ReLU"
               /\ nodes[v].parents = <<last.a>>
               /\ nodes[v].grad = Zero
    /\ \A v \in Handles(nodes) :
           nodes[v].operation = "ReLU" =>
               LET a == nodes[v].parents[1]
                   after == backward(nodes, v)
               IN  /\ Len(nodes[v].parents) = 1
                   /\ nodes[v].data =
                          IF nodes[a].data[1] > 0 THEN nodes[a].data ELSE Zero
                   /\ after[a].grad =
                          IF nodes[a].data[1] > 0 THEN One ELSE Zero

\* backward has run on relu(a), a.data being exactly 0
C8_Witness ==
    \E v \in Handles(nodes) :
        /\ nodes[v].operation = "ReLU"
        /\ nodes[nodes[v].parents[1]].data = Zero
        /\ nodes[v].grad = One
        /\ nodes[nodes[v].parents[1]].grad = Zero
        /\ nodes = backward(nodes, v)

----------------------------------------------------------------------------
(* C9 *)

\* C9: no step (constructor, operator, set_grad, clear_grads, backward, the
\* sorts they run) removes a node or changes the data, the parents, the
\* operation or the closure of a node that exists: only grad may change.
C9_OnlyGradChanges ==
    [][\A n \in Handles(nodes) :
           /\ n \in Handles(nodes')
           /\ nodes'[n].data = nodes[n].data
           /\ nodes'[n].parents = nodes[n].parents
           /\ nodes'[n].operation = nodes[n].operation
           /\ nodes'[n].backward = nodes[n].backward]_vars

\* an operator was applied to a handle whose grad a backward had changed,
\* next to a node whose grad was set by set_grad
C9_Witness ==
    /\ last.op \notin {"", "new"}
    /\ nodes[last.a].grad \notin {Zero} \cup GradLits
    /\ \E m \in Handles(nodes) : nodes[m].grad \in GradLits

----------------------------------------------------------------------------
(* C10 *)

\* the node n is a leaf built by the last call, holding d
FreshLeaf(n, d) ==
    /\ nodes[n].data = d
    /\ nodes[n].parents = <<>>
    /\ nodes[n].operation = ""
    /\ nodes[n].backward = NoOp
    /\ nodes[n].grad = Zero

\* what holds of a - x, x - a, a / x and x / a, r being the result and l
\* the leaf the literal was promoted to: the operands are taken in the
\* written order, and the second parent is the leaf Neg or pow builds
LitSubDiv ==
    LET r == Len(nodes)
        l == r - 2
        a == last.a
        x == last.x
    IN  /\ last.op \in {"sub_f64", "f64_sub", "div_f64", "f64_div"} =>
               /\ FreshLeaf(l, x)
               /\ a < l
               /\ nodes[r].grad = Zero
        /\ last.op = "sub_f64" =>
               /\ nodes[r].data = FAdd(nodes[a].data, FNeg(x))
               /\ nodes[r].operation = "+"
               /\ nodes[r].parents = <<a, r - 1>>
               /\ FreshLeaf(r - 1, FNeg(x))
        /\ last.op = "f64_sub" =>
               /\ nodes[r].data = FAdd(x, FNeg(nodes[a].data))
               /\ nodes[r].operation = "+"
               /\ nodes[r].parents = <<l, r - 1>>
               /\ FreshLeaf(r - 1, FNeg(nodes[a].data))
        /\ last.op = "div_f64" =>
               /\ nodes[r].data = FMul(nodes[a].data, FInv(x))
               /\ nodes[r].operation = "*"
               /\ nodes[r].parents = <<a, r - 1>>
               /\ FreshLeaf(r - 1, FInv(x))
        /\ last.op = "f64_div" =>
               /\ nodes[r].data = FMul(x, FInv(nodes[a].data))
               /\ nodes[r].operation = "*"
               /\ nodes[r].parents = <<l, r - 1>>
               /\ FreshLeaf(r - 1, FInv(nodes[a].data))

----------------------------------------------------------------------------
(* C11 *)

\* the arena as its constructors and operators left it: every grad 0
AsBuilt(ns) == [n \in DOMAIN ns |-> [ns[n] EXCEPT !.grad = Zero]]

\* C11: from any state (grads left by any earlier backward, clear_grads and
\* set_grad calls on any roots) and for any root v, backward(v) leaves in
\* every node reachable from v the grad that backward(v) gives on the graph
\* as built, v.grad = 1 in particular (the states an earlier backward(v)
\* left are among them: a second backward(v) doubles nothing); backward(v)
\* and clear_grads(v) leave the grad of every node not reachable from v as
\* it was.
C11_BackwardIgnoresHistory ==
    \A v \in Handles(nodes) :
        LET reach == Reach(nodes, v)
            after == backward(nodes, v)
            built == backward(AsBuilt(nodes), v)
            cleared == clear_grads(nodes, v)
        IN  /\ \A n \in reach : after[n].grad = built[n].grad
            /\ after[v].grad = One
            /\ \A n \in Handles(nodes) \ reach :
                   /\ after[n].grad = nodes[n].grad
                   /\ cleared[n].grad = nodes[n].grad

\* backward(v) has run after backward(w), w a root outside v's graph that
\* shares a node with it: w keeps the grad its own backward gave, and a
\* node of v's graph holds a grad other than the one backward(w) gives it
C11_Witness ==
    \E v, w \in Handles(nodes) :
        /\ w \notin Reach(nodes, v)
        /\ Reach(nodes, v) \cap Reach(nodes, w) # {}
        /\ nodes[w].grad = One
        /\ Len(nodes[v].parents) = 2
        /\ nodes = backward(nodes, v)
        /\ \E n \in Reach(nodes, v) :
               backward(nodes, w)[n].grad # nodes[n].grad

====
